---- MODULE Spec2Model ----
(***************************************************************************)
(* Credential verifier of routes_visit (src/make_admin_hash.py) and the    *)
(* login and save steps of its two apps.                                   *)
(*                                                                         *)
(* A text is a sequence of characters.  A character is a one-character     *)
(* string; the characters outside ASCII that the model uses are named by   *)
(* their code point ("U+00E9", "U+D800").  A byte string is a sequence of  *)
(* numbers in 0..255.  A call that can raise returns a record              *)
(* [raised, value, exc, examined]; the callers propagate a raise as Python  *)
(* does.  The field `examined` is the work of the comparison step of the    *)
(* call: the number of byte positions it looked at, 0 when the call made   *)
(* no comparison.                                                          *)
(***************************************************************************)
EXTENDS Integers, Sequences, FiniteSets, TLC

VARIABLES stored, issued, password, result

\* The two Streamlit apps (src/routes_visit_app.py, src/routes_visit_app_v2.py):
\* the session's auth, the routes sheet, the last call or script run, and the
\* deployment the app runs in.
VARIABLES session, sheet, run, deploy

appVars == <<session, sheet, run, deploy>>

vars == <<stored, issued, password, result, session, sheet, run, deploy>>

(***************************************************************************)
(* Outcomes of calls.                                                      *)
(***************************************************************************)
Ok(v) == [raised |-> FALSE, value |-> v, exc |-> "", examined |-> 0]

Raise(e) == [raised |-> TRUE, value |-> FALSE, exc |-> e, examined |-> 0]

(***************************************************************************)
(* Characters.                                                             *)
(***************************************************************************)
Upper == <<"A","B","C","D","E","F","G","H","I","J","K","L","M",
           "N","O","P","Q","R","S","T","U","V","W","X","Y","Z">>

Lower == <<"a","b","c","d","e","f","g","h","i","j","k","l","m",
           "n","o","p","q","r","s","t","u","v","w","x","y","z">>

Digits == <<"0","1","2","3","4","5","6","7","8","9">>

\* The printable ASCII characters in code order, from " " (32) to "~" (126);
\* the grave accent (96) is written "U+0060".
AsciiPrintable ==
    <<" ","!","\"","#","$","%","&","'","(",")","*","+",",","-",".","/">>
    \o Digits \o <<":",";","<","=",">","?","@">>
    \o Upper \o <<"[","\\","]","^","_","U+0060">>
    \o Lower \o <<"{","|","}","~">>

Range(seq) == {seq[i] : i \in DOMAIN seq}

\* ord(): the code point of a character.
Ord ==
    [c \in Range(AsciiPrintable) \cup {"\t", "\n", "\r", "U+00E9", "U+D800"} |->
        CASE c = "\t" -> 9
          [] c = "\n" -> 10
          [] c = "\r" -> 13
          [] c = "U+00E9" -> 233
          [] c = "U+D800" -> 55296
          [] OTHER -> 31 + (CHOOSE i \in DOMAIN AsciiPrintable : AsciiPrintable[i] = c)]

IsAscii(c) == Ord[c] < 128

\* str.isspace() on the characters of the model.
IsSpace(c) == c \in {" ", "\t", "\n", "\r"}

IsDigit(c) == c \in Range(Digits)

DigitValue(c) == Ord[c] - 48

(***************************************************************************)
(* Text operations of the Python runtime.                                  *)
(***************************************************************************)
RECURSIVE LStrip(_)
LStrip(text) ==
    IF text # <<>> /\ IsSpace(Head(text)) THEN LStrip(Tail(text)) ELSE text

RECURSIVE RStrip(_)
RStrip(text) ==
    IF text # <<>> /\ IsSpace(text[Len(text)])
    THEN RStrip(SubSeq(text, 1, Len(text) - 1))
    ELSE text

\* A strip that forgets the leading run.
StripTrailing(text) == RStrip(text)

\* str.strip()
Strip(text) == RStrip(LStrip(text))

\* str.rstrip("=")
RECURSIVE RStripChar(_, _)
RStripChar(text, c) ==
    IF text # <<>> /\ text[Len(text)] = c
    THEN RStripChar(SubSeq(text, 1, Len(text) - 1), c)
    ELSE text

\* str.startswith(prefix)
StartsWith(text, prefix) ==
    /\ Len(text) >= Len(prefix)
    /\ SubSeq(text, 1, Len(prefix)) = prefix

\* str.split(sep, maxsplit) for a one-character separator; maxsplit -1 is
\* no limit.
RECURSIVE Split(_, _, _)
Split(text, sep, maxsplit) ==
    IF maxsplit = 0 \/ \A i \in DOMAIN text : text[i] # sep
    THEN <<text>>
    ELSE LET k == CHOOSE i \in DOMAIN text :
                      text[i] = sep /\ \A j \in 1..(i - 1) : text[j] # sep
         IN  <<SubSeq(text, 1, k - 1)>>
             \o Split(SubSeq(text, k + 1, Len(text)), sep,
                      IF maxsplit < 0 THEN maxsplit ELSE maxsplit - 1)

\* str(n) for n >= 0, as the f-string of hash_password formats iterations.
RECURSIVE IntToStr(_)
IntToStr(n) ==
    IF n < 10 THEN <<Digits[n + 1]>>
    ELSE IntToStr(n \div 10) \o <<Digits[(n % 10) + 1]>>

\* The digits-and-underscores body of an integer literal: digits, with
\* single underscores allowed between two digits.
IsIntBody(body) ==
    /\ body # <<>>
    /\ \A i \in DOMAIN body : IsDigit(body[i]) \/ body[i] = "_"
    /\ body[1] # "_"
    /\ body[Len(body)] # "_"
    /\ \A i \in 1..(Len(body) - 1) : ~(body[i] = "_" /\ body[i + 1] = "_")

RECURSIVE DigitsValue(_, _)
DigitsValue(body, acc) ==
    IF body = <<>> THEN acc
    ELSE IF Head(body) = "_" THEN DigitsValue(Tail(body), acc)
    ELSE DigitsValue(Tail(body), 10 * acc + DigitValue(Head(body)))

\* int(text): surrounding whitespace is stripped, one sign is allowed, then
\* decimal digits with single underscores between them.
PyInt(text) ==
    LET t == Strip(text)
        signed == t # <<>> /\ t[1] \in {"+", "-"}
        body == IF signed THEN Tail(t) ELSE t
    IN  IF ~IsIntBody(body) THEN Raise("ValueError")
        ELSE IF signed /\ t[1] = "-" THEN Ok(0 - DigitsValue(body, 0))
        ELSE Ok(DigitsValue(body, 0))

\* str.encode("utf-8"): a lone surrogate cannot be encoded.
RECURSIVE Utf8Encode(_)
Utf8Encode(text) ==
    IF text = <<>> THEN Ok(<<>>)
    ELSE LET cp == Ord[Head(text)]
             rest == Utf8Encode(Tail(text))
         IN  IF cp >= 55296 /\ cp <= 57343 THEN Raise("UnicodeEncodeError")
             ELSE IF rest.raised THEN rest
             ELSE IF cp < 128 THEN Ok(<<cp>> \o rest.value)
             ELSE IF cp < 2048
                  THEN Ok(<<192 + (cp \div 64), 128 + (cp % 64)>> \o rest.value)
             ELSE Ok(<<224 + (cp \div 4096), 128 + ((cp \div 64) % 64),
                       128 + (cp % 64)>> \o rest.value)

(***************************************************************************)
(* base64 (the base64 and binascii modules of the runtime).                *)
(***************************************************************************)
B64Alphabet == Upper \o Lower \o Digits \o <<"+", "/">>

\* binascii's table_a2b_base64: the value of each alphabet character.
B64Value ==
    [c \in Range(B64Alphabet) |->
        (CHOOSE i \in DOMAIN B64Alphabet : B64Alphabet[i] = c) - 1]

\* binascii.b2a_base64 without the newline: three bytes give four
\* characters, and a last group of one or two bytes is padded with "=".
B64Encode(bytes) ==
    LET n == Len(bytes)
        at(j) == IF j <= n THEN bytes[j] ELSE 0
        char(k) ==
            LET g == 3 * ((k - 1) \div 4)
                r == (k - 1) % 4
            IN  CASE r = 0 -> B64Alphabet[(at(g + 1) \div 4) + 1]
                  [] r = 1 -> B64Alphabet[((at(g + 1) % 4) * 16) + (at(g + 2) \div 16) + 1]
                  [] r = 2 -> IF g + 2 > n THEN "="
                              ELSE B64Alphabet[((at(g + 2) % 16) * 4) + (at(g + 3) \div 64) + 1]
                  [] OTHER -> IF g + 3 > n THEN "="
                              ELSE B64Alphabet[(at(g + 3) % 64) + 1]
    IN  [k \in 1..(4 * ((n + 2) \div 3)) |-> char(k)]

\* bytes.translate of the URL-safe alphabet: c1 -> d1, c2 -> d2.
Translate(text, c1, d1, c2, d2) ==
    [i \in DOMAIN text |->
        IF text[i] = c1 THEN d1 ELSE IF text[i] = c2 THEN d2 ELSE text[i]]

\* base64.urlsafe_b64encode
UrlsafeB64Encode(bytes) == Translate(B64Encode(bytes), "+", "-", "/", "_")

InB64Alphabet(c) == c \in DOMAIN B64Value

\* binascii.a2b_base64 in its default, non-strict mode.  The decoder reads
\* the characters left to right: a character outside the alphabet is
\* skipped; a "=" read while the current group of four holds two or three
\* characters counts as a pad, and the pad that completes the group ends the
\* decoding, whatever follows; every alphabet character resets the count of
\* pads.  When the input ends inside a group, the decoder raises.
A2bBase64(data) ==
    LET n == Len(data)
        \* quad_pos when position i is read
        QuadPos(i) == Len(SelectSeq(SubSeq(data, 1, i - 1), InB64Alphabet)) % 4
        \* the pads read since the last alphabet character, position i included
        Pads(i) == Cardinality({j \in 1..i :
                        data[j] = "=" /\ \A m \in j..i : ~InB64Alphabet(data[m])})
        stops == {i \in 1..n :
                     data[i] = "=" /\ QuadPos(i) >= 2 /\ QuadPos(i) + Pads(i) >= 4}
        last == IF stops = {} THEN n
                ELSE (CHOOSE i \in stops : \A j \in stops : i <= j) - 1
        chars == SelectSeq(SubSeq(data, 1, last), InB64Alphabet)
        open == Len(chars) % 4
        v(j) == B64Value[chars[j]]
        byte(k) ==
            LET g == 4 * ((k - 1) \div 3)
                t == (k - 1) % 3
            IN  CASE t = 0 -> (v(g + 1) * 4) + (v(g + 2) \div 16)
                  [] t = 1 -> ((v(g + 2) % 16) * 16) + (v(g + 3) \div 4)
                  [] OTHER -> ((v(g + 3) % 4) * 64) + v(g + 4)
    IN  IF stops = {} /\ open # 0 THEN Raise("binascii.Error")
        ELSE Ok([k \in 1..(3 * (Len(chars) \div 4) + (IF open = 0 THEN 0 ELSE open - 1))
                   |-> byte(k)])

\* base64.b64decode(s) of a text: the text is first encoded as ASCII, which
\* raises ValueError on any other character.
B64Decode(text) ==
    IF \E i \in DOMAIN text : ~IsAscii(text[i]) THEN Raise("ValueError")
    ELSE A2bBase64(text)

\* base64.urlsafe_b64decode(s): "-" and "_" are translated to "+" and "/",
\* then the standard decoder runs ("+" and "/" themselves stay valid).
UrlsafeB64Decode(text) ==
    IF \E i \in DOMAIN text : ~IsAscii(text[i]) THEN Raise("ValueError")
    ELSE B64Decode(Translate(text, "-", "+", "_", "/"))

(***************************************************************************)
(* Key derivation.                                                         *)
(***************************************************************************)
DEF_ITERS == 260000

\* Length of the key hashlib.pbkdf2_hmac("sha256", ...) derives.
DKLEN == 32

\* Number of bytes hash_password draws from os.urandom.
SALT_LEN == 16

\* The largest iteration count hashlib.pbkdf2_hmac accepts (a C int).
INT_MAX == 2147483647

Int4Bytes(n) ==
    <<(n \div 16777216) % 256, (n \div 65536) % 256, (n \div 256) % 256, n % 256>>

\* hashlib.pbkdf2_hmac("sha256", pw, salt, iterations), idealised as a
\* collision-free function: the key is a one-to-one image of
\* (iterations, pw, salt) as long as these fit in DKLEN bytes, which they do
\* for every input of the model (KdfCollisionFree below checks it).
KdfMaterial(pw, salt, iterations) ==
    Int4Bytes(iterations) \o <<Len(pw)>> \o pw \o <<Len(salt)>> \o salt

HashlibPbkdf2(pw, salt, iterations) ==
    IF iterations < 1 THEN Raise("ValueError")
    ELSE IF iterations > INT_MAX THEN Raise("OverflowError")
    ELSE LET m == KdfMaterial(pw, salt, iterations)
             at(i) == IF i <= Len(m) THEN m[i] ELSE 0
         IN  Ok([i \in 1..DKLEN |-> (at(i) + at(i + DKLEN) + 31 * i) % 256])

\* Mutant of Pbkdf2Sha256: the iterations argument is not passed on, the
\* default count is used.
Pbkdf2Sha256DefaultIters(pw_text, salt, iterations) ==
    LET pw == Utf8Encode(pw_text)
    IN  IF pw.raised THEN pw ELSE HashlibPbkdf2(pw.value, salt, DEF_ITERS)

\* _pbkdf2_sha256(password, salt, iterations)
Pbkdf2Sha256(pw_text, salt, iterations) ==
    LET pw == Utf8Encode(pw_text)
    IN  IF pw.raised THEN pw ELSE HashlibPbkdf2(pw.value, salt, iterations)

\* Mutant of ConstEq: only the lengths are compared.
ConstEqLength(a, b) == Len(a) = Len(b)

\* _consteq(a, b): hmac.compare_digest, equality of the two byte strings.
ConstEq(a, b) == a = b

\* The byte positions a comparison with "==" looks at: none when the lengths
\* differ, else those up to the first mismatch.
ShortCircuitExamined(a, b) ==
    IF Len(a) # Len(b) THEN 0
    ELSE IF a = b THEN Len(b)
    ELSE CHOOSE i \in 1..Len(b) : a[i] # b[i] /\ \A j \in 1..(i - 1) : a[j] = b[j]

\* The byte positions hmac.compare_digest(a, b) looks at: every position of
\* b, whatever the contents and wherever the first mismatch is.
ConstEqExamined(a, b) == Len(b)

\* return _consteq(got, want)
Compared(got, want) ==
    [Ok(ConstEq(got, want)) EXCEPT !.examined = ConstEqExamined(got, want)]

(***************************************************************************)
(* Issuing credentials.                                                    *)
(***************************************************************************)
CanonicalPrefix == <<"p","b","k","d","f","2","_","s","h","a","2","5","6","$">>

AlternatePrefix == <<"p","b","k","d","f","2",":","s","h","a","2","5","6",":">>

ModularPrefix == <<"$","p","b","k","d","f","2","-","s","h","a","2","5","6","$">>

\* A hash_password that leaves the "=" padding on the salt and on the digest.
HashPasswordKeepPadding(pw_text, iterations, random) ==
    LET salt == UrlsafeB64Encode(random)
        salt_bytes == UrlsafeB64Decode(salt \o <<"=", "=">>)
        dk == IF salt_bytes.raised THEN salt_bytes
              ELSE Pbkdf2Sha256(pw_text, salt_bytes.value, iterations)
    IN  IF dk.raised THEN dk
        ELSE Ok(CanonicalPrefix \o IntToStr(iterations) \o <<"$">> \o salt
                \o <<"$">> \o UrlsafeB64Encode(dk.value))

\* hash_password(password, iterations), with `random` the 16 bytes that
\* os.urandom returns.
HashPasswordWith(pw_text, iterations, random) ==
    LET salt == RStripChar(UrlsafeB64Encode(random), "=")
        salt_bytes == UrlsafeB64Decode(salt \o <<"=", "=">>)
        dk == IF salt_bytes.raised THEN salt_bytes
              ELSE Pbkdf2Sha256(pw_text, salt_bytes.value, iterations)
    IN  IF dk.raised THEN dk
        ELSE Ok(CanonicalPrefix \o IntToStr(iterations) \o <<"$">> \o salt
                \o <<"$">> \o RStripChar(UrlsafeB64Encode(dk.value), "="))

\* Mutant of HashPasswordLegacyWith: the pack is encoded with the URL-safe
\* alphabet.
HashPasswordLegacyUrlsafe(pw_text, iterations, random) ==
    LET dk == Pbkdf2Sha256(pw_text, random, iterations)
    IN  IF dk.raised THEN dk ELSE Ok(UrlsafeB64Encode(random \o dk.value))

\* hash_password_legacy_b64pack(password, iterations)
HashPasswordLegacyWith(pw_text, iterations, random) ==
    LET dk == Pbkdf2Sha256(pw_text, random, iterations)
    IN  IF dk.raised THEN dk ELSE Ok(B64Encode(random \o dk.value))

(***************************************************************************)
(* verify_password.                                                        *)
(***************************************************************************)
\* Mutant of DecodeDeriveCompare: the "==" padding is not restored before
\* decoding.
DecodeDeriveCompareNoPadding(pw_text, iters, salt_b64, dig_b64) ==
    LET salt == UrlsafeB64Decode(salt_b64)
        want == UrlsafeB64Decode(dig_b64)
        got == Pbkdf2Sha256(pw_text, salt.value, iters)
    IN  IF salt.raised THEN salt
        ELSE IF want.raised THEN want
        ELSE IF got.raised THEN got
        ELSE Compared(got.value, want.value)

\* The four statements every prefixed branch ends with: decode the salt and
\* the digest with "==" appended, derive the key, compare.
DecodeDeriveCompare(pw_text, iters, salt_b64, dig_b64) ==
    LET salt == UrlsafeB64Decode(salt_b64 \o <<"=", "=">>)
        want == UrlsafeB64Decode(dig_b64 \o <<"=", "=">>)
        got == Pbkdf2Sha256(pw_text, salt.value, iters)
    IN  IF salt.raised THEN salt
        ELSE IF want.raised THEN want
        ELSE IF got.raised THEN got
        ELSE Compared(got.value, want.value)

\* Django style: _, iters, salt_b64, dig_b64 = s.split("$", 3)
VerifyCanonical(pw_text, s) ==
    LET parts == Split(s, "$", 3)
        iters == PyInt(parts[2])
    IN  IF Len(parts) # 4 THEN Raise("ValueError")
        ELSE IF iters.raised THEN iters
        ELSE DecodeDeriveCompare(pw_text, iters.value, parts[3], parts[4])

\* Flask/Passlib style: split(":", 2), then the rest on every "$".
VerifyAlternate(pw_text, s) ==
    LET outer == Split(s, ":", 2)
        parts == Split(outer[3], "$", -1)
        iters == PyInt(parts[1])
    IN  IF Len(outer) # 3 THEN Raise("ValueError")
        ELSE IF iters.raised THEN iters
        ELSE IF Len(parts) < 3 THEN Raise("IndexError")
        ELSE DecodeDeriveCompare(pw_text, iters.value, parts[2], parts[3])

\* Mutant of VerifyModular: the string is split as the canonical one is,
\* s.split("$", 3), and unpacked into five names.
VerifyModularSplit3(pw_text, s) ==
    LET parts == Split(s, "$", 3)
        iters == PyInt(parts[3])
    IN  IF Len(parts) # 5 THEN Raise("ValueError")
        ELSE IF iters.raised THEN iters
        ELSE DecodeDeriveCompare(pw_text, iters.value, parts[4], parts[5])

\* Modular crypt style: _, scheme, iters, salt_b64, dig_b64 = s.split("$", 4)
VerifyModular(pw_text, s) ==
    LET parts == Split(s, "$", 4)
        iters == PyInt(parts[3])
    IN  IF Len(parts) # 5 THEN Raise("ValueError")
        ELSE IF iters.raised THEN iters
        ELSE DecodeDeriveCompare(pw_text, iters.value, parts[4], parts[5])

\* Fallback: legacy base64(salt + digest), derived with DEF_ITERS.  A
\* decoded value shorter than 16 bytes falls out of the try block to the
\* final `return False`.
VerifyLegacy(pw_text, s) ==
    LET raw == B64Decode(s)
        got == Pbkdf2Sha256(pw_text, SubSeq(raw.value, 1, 16), DEF_ITERS)
    IN  IF raw.raised THEN raw
        ELSE IF Len(raw.value) < 16 THEN Ok(FALSE)
        ELSE IF got.raised THEN got
        ELSE Compared(got.value, SubSeq(raw.value, 17, Len(raw.value)))

\* A dispatch that tries the legacy parser after a prefixed parser has failed
\* or has said no.
VerifyDispatchRetryLegacy(pw_text, s) ==
    LET first == IF StartsWith(s, CanonicalPrefix) THEN VerifyCanonical(pw_text, s)
                 ELSE IF StartsWith(s, AlternatePrefix) THEN VerifyAlternate(pw_text, s)
                 ELSE IF StartsWith(s, ModularPrefix) THEN VerifyModular(pw_text, s)
                 ELSE VerifyLegacy(pw_text, s)
    IN  IF first.raised \/ ~first.value THEN VerifyLegacy(pw_text, s) ELSE first

\* The body of the try block, on the stripped text.
VerifyDispatch(pw_text, s) ==
    IF StartsWith(s, CanonicalPrefix) THEN VerifyCanonical(pw_text, s)
    ELSE IF StartsWith(s, AlternatePrefix) THEN VerifyAlternate(pw_text, s)
    ELSE IF StartsWith(s, ModularPrefix) THEN VerifyModular(pw_text, s)
    ELSE VerifyLegacy(pw_text, s)

\* Mutant of CatchException: no except clause, the exception escapes.
CatchNothing(outcome) == outcome

\* try: ... except Exception: return False
CatchException(outcome) == IF outcome.raised THEN Ok(FALSE) ELSE outcome

\* verify_password(password, stored)
VerifyPassword(pw_text, stored_text) ==
    CatchException(VerifyDispatch(pw_text, Strip(stored_text)))

(***************************************************************************)
(* Inputs of the model.                                                    *)
(***************************************************************************)
MaxPwLen == 1

NumSalts == 2

MaxJunkOffset == 1

\* Characters of the passwords tried: an ASCII and a two-byte character.
PwChars == {"a", "U+00E9"}

RECURSIVE TextsUpTo(_, _)
TextsUpTo(chars, n) ==
    IF n = 0 THEN {<<>>}
    ELSE LET shorter == TextsUpTo(chars, n - 1)
         IN  shorter \cup {Append(t, c) : t \in shorter, c \in chars}

\* The passwords tried: the texts of up to MaxPwLen characters, the empty
\* one included, and a lone surrogate (which str.encode("utf-8") rejects).
Passwords == TextsUpTo(PwChars, MaxPwLen) \cup {<<"U+D800">>}

IterCounts == {1, DEF_ITERS}

\* The values os.urandom(16) returns in the model: the bytes of
\* "0123456789abcdef" first, then bytes that spread over the whole alphabet.
Urandom(k) ==
    IF k = 1 THEN <<48,49,50,51,52,53,54,55,56,57,97,98,99,100,101,102>>
    ELSE [i \in 1..SALT_LEN |-> (251 + (k * 67) + (i * 59)) % 256]

RandomSalts == {Urandom(k) : k \in 1..NumSalts}

\* Salts of credentials issued by other systems: also the empty salt.
ForeignSalts == RandomSalts \cup {<<>>}

Formats == {"canonical", "alternate", "modular"}

PrefixOf(fmt) ==
    CASE fmt = "canonical" -> CanonicalPrefix
      [] fmt = "alternate" -> AlternatePrefix
      [] fmt = "modular" -> ModularPrefix
      [] OTHER -> <<>>

\* salt or key as the three prefixed formats store it: URL-safe base64
\* with the "=" padding removed.
B64Field(bytes) == RStripChar(UrlsafeB64Encode(bytes), "=")

\* A credential string of a prefixed format from its fields.
Credential(fmt, iters_text, salt_b64, dig_b64) ==
    PrefixOf(fmt) \o iters_text \o <<"$">> \o salt_b64 \o <<"$">> \o dig_b64

\* The key stored with a credential issued for (pw, salt, iterations).
KeyOf(pw_text, salt, iterations) == Pbkdf2Sha256(pw_text, salt, iterations).value

NoResult ==
    [called |-> FALSE, raised |-> FALSE, value |-> FALSE, exc |-> "", examined |-> 0]

Called(outcome) ==
    [called |-> TRUE, raised |-> outcome.raised, value |-> outcome.value,
     exc |-> outcome.exc, examined |-> outcome.examined]

NotIssued ==
    [by |-> "none", fmt |-> "none", pw |-> <<>>, iters |-> 0, salt |-> <<>>,
     edit |-> "none", detail |-> <<>>]

Issued(by, fmt, pw, iters, salt) ==
    [by |-> by, fmt |-> fmt, pw |-> pw, iters |-> iters, salt |-> salt,
     edit |-> "none", detail |-> <<>>]

\* The fields of the credential as it was issued.
ItersField == IntToStr(issued.iters)

SaltField == B64Field(issued.salt)

IssuedKey == KeyOf(issued.pw, issued.salt, issued.iters)

DigestField == B64Field(IssuedKey)

\* text with character c inserted after its first `offset` characters.
InsertAt(text, offset, c) ==
    SubSeq(text, 1, offset) \o <<c>> \o SubSeq(text, offset + 1, Len(text))

\* Offsets at which a character is inserted into a field: its first
\* MaxJunkOffset + 1 positions, and its end.
JunkOffsets(text) == {o \in 0..MaxJunkOffset : o <= Len(text)} \cup {Len(text)}

\* Characters that get inserted into a stored credential: two that are not
\* in any base64 alphabet, and the field separator.
JunkChars == {"!", "U+00E9", "$"}

\* Texts an iteration field gets replaced by, for a credential of n
\* iterations.
IterTexts(n) ==
    LET d == IntToStr(n)
    IN  {<<>>, <<"a", "b", "c">>, <<"0">>, <<"-">> \o d, <<"+">> \o d,
         <<" ">> \o d, d \o <<" ">>, <<"\t">> \o d \o <<"\n">>,
         d \o <<".", "0">>, <<"0">> \o d}
        \cup (IF Len(d) >= 2 THEN {InsertAt(d, 1, "_"), InsertAt(InsertAt(d, 1, "_"), 1, "_")}
              ELSE {<<"_">> \o d})

\* Texts appended to a credential as one more "$"-separated field.
ExtraFields == {<<>>, <<"x">>}

\* The bytes base64.b64decode makes of any of the three prefixes: it skips
\* "_", ":", "-" and "$" and decodes the twelve characters that remain.
PrefixBytes == B64Decode(<<"p","b","k","d","f","2","s","h","a","2","5","6">>).value

\* The salt of a legacy pack whose text starts with a prefix.
PrefixedSalt == PrefixBytes \o SubSeq(Urandom(1), 1, SALT_LEN - Len(PrefixBytes))

\* A text that starts with the prefix of fmt and that, read as a legacy pack,
\* is the pack of password p under PrefixedSalt.
PrefixedPack(fmt, p) ==
    PrefixOf(fmt)
        \o B64Encode(SubSeq(PrefixedSalt, Len(PrefixBytes) + 1, SALT_LEN)
                      \o KeyOf(p, PrefixedSalt, DEF_ITERS))

(***************************************************************************)
(* State machine: a store holding one credential text, the calls of the    *)
(* library on it, and the ways the stored text gets damaged.               *)
(*   stored    the credential text in the store                            *)
(*   issued    how it came about: issuer, format, password, iterations,    *)
(*             salt, and the one edit made to it since (history, not       *)
(*             program state)                                              *)
(*   password  the password of the last verify_password call               *)
(*   result    what that call did                                          *)
(***************************************************************************)
\* Python's None.
None == [is |-> "None"]

\* No call and no script run yet.
NoRun == [kind |-> "none"]

\* The apps at rest: the library is used on its own.
NoSheet == [header |-> <<>>, rows |-> <<>>]

NoDeployment == [app |-> "none"]

AppAtRest ==
    /\ session = None
    /\ sheet = NoSheet
    /\ run = NoRun
    /\ deploy = NoDeployment

Init ==
    /\ stored = <<>>
    /\ issued = NotIssued
    /\ password = <<>>
    /\ result = NoResult
    /\ AppAtRest

Fresh ==
    /\ password' = <<>>
    /\ result' = NoResult
    /\ UNCHANGED appVars

\* hash_password(p, n) returns and its value is stored.
HashPassword(p, n, k) ==
    LET h == HashPasswordWith(p, n, Urandom(k))
    IN  /\ issued.by = "none"
        /\ ~h.raised
        /\ stored' = h.value
        /\ issued' = Issued("hash_password", "canonical", p, n, Urandom(k))
        /\ Fresh

\* hash_password_legacy_b64pack(p, n) returns and its value is stored.
HashPasswordLegacy(p, n, k) ==
    LET h == HashPasswordLegacyWith(p, n, Urandom(k))
    IN  /\ issued.by = "none"
        /\ ~h.raised
        /\ stored' = h.value
        /\ issued' = Issued("hash_password_legacy_b64pack", "legacy", p, n, Urandom(k))
        /\ Fresh

\* A credential issued elsewhere for (p, salt, n), in one of the three
\* prefixed formats, is put in the store.
Import(fmt, p, n, salt) ==
    /\ issued.by = "none"
    /\ ~Pbkdf2Sha256(p, salt, n).raised
    /\ stored' = Credential(fmt, IntToStr(n), B64Field(salt), B64Field(KeyOf(p, salt, n)))
    /\ issued' = Issued("import", fmt, p, n, salt)
    /\ Fresh

\* Texts that are no credential at all.
OtherTexts ==
    {<<"n","o","t","-","a","-","v","a","l","i","d","-","f","o","r","m","a","t">>,
     CanonicalPrefix \o <<"a","b","c","$","$">>,
     ModularPrefix,
     <<" ", "\n">>,
     <<"A">>,
     <<"A","A","A","A">>,
     <<"U+00E9">>}

\* Some other text is put in the store.
StoreText(text) ==
    /\ issued.by = "none"
    /\ stored' = text
    /\ issued' = Issued("other", "none", <<>>, 0, <<>>)
    /\ Fresh

\* The credential is reset: the store is empty again.
Reset ==
    /\ issued.by # "none"
    /\ stored' = <<>>
    /\ issued' = NotIssued
    /\ Fresh

\* verify_password(p, stored) is called.
Verify(p) ==
    /\ password' = p
    /\ result' = Called(VerifyPassword(p, stored))
    /\ UNCHANGED <<stored, issued>>
    /\ UNCHANGED appVars

\* The stored text is edited, once, after it was issued.
Pristine ==
    /\ issued.by # "none"
    /\ issued.edit = "none"

Edited(edit, detail, text) ==
    /\ stored' = text
    /\ issued' = [issued EXCEPT !.edit = edit, !.detail = detail]
    /\ Fresh

\* The last k fields of a prefixed credential are lost.
DropFields(k) ==
    /\ Pristine
    /\ issued.fmt \in Formats
    /\ Edited("drop_fields", <<>>,
              IF k = 1 THEN PrefixOf(issued.fmt) \o ItersField \o <<"$">> \o SaltField
              ELSE PrefixOf(issued.fmt) \o ItersField)

\* One more "$"-separated field follows the digest.
AddField(extra) ==
    /\ Pristine
    /\ issued.fmt \in Formats
    /\ Edited("add_field", extra, stored \o <<"$">> \o extra)

\* A character gets into the salt field.
JunkInSalt(c) ==
    /\ Pristine
    /\ issued.fmt \in Formats
    /\ \E o \in JunkOffsets(SaltField) :
          Edited("junk_in_salt", <<c>>,
                 Credential(issued.fmt, ItersField, InsertAt(SaltField, o, c), DigestField))

\* A character gets into the digest field.
JunkInDigest(c) ==
    /\ Pristine
    /\ issued.fmt \in Formats
    /\ \E o \in JunkOffsets(DigestField) :
          Edited("junk_in_digest", <<c>>,
                 Credential(issued.fmt, ItersField, SaltField, InsertAt(DigestField, o, c)))

\* A character gets into a legacy pack.
JunkInPack(c) ==
    /\ Pristine
    /\ issued.fmt = "legacy"
    /\ \E o \in JunkOffsets(stored) :
          Edited("junk_in_pack", <<c>>, InsertAt(stored, o, c))

\* The iteration field of a prefixed credential is replaced.
SetIterations ==
    /\ Pristine
    /\ issued.fmt \in Formats
    /\ \E text \in IterTexts(issued.iters) :
          Edited("iterations", text,
                 Credential(issued.fmt, text, SaltField, DigestField))

\* The stored key is cut to its first m bytes.
CutKey(m) ==
    /\ Pristine
    /\ issued.fmt \in Formats \cup {"legacy"}
    /\ Edited("cut_key", <<>>,
              IF issued.fmt = "legacy"
              THEN B64Encode(issued.salt \o SubSeq(IssuedKey, 1, m))
              ELSE Credential(issued.fmt, ItersField, SaltField,
                              B64Field(SubSeq(IssuedKey, 1, m))))

\* Runs of spaces and newlines that surround a stored text, as a sheet cell
\* or a pasted value carries them.
WhitespaceRuns == {<<>>, <<" ">>, <<"\n">>, <<" ", "\n">>}

\* The stored text gets a leading run w1 and a trailing run w2.
PadWhitespace(w1, w2) ==
    /\ Pristine
    /\ w1 \o w2 # <<>>
    /\ Edited("whitespace", <<w1, w2>>, w1 \o stored \o w2)

\* The stored text as it was before PadWhitespace.
Unpadded ==
    SubSeq(stored, Len(issued.detail[1]) + 1, Len(stored) - Len(issued.detail[2]))

\* A text with a recognized prefix that is also a valid legacy pack of
\* password p is put in the store.
ImportPrefixedPack(fmt, p) ==
    /\ issued.by = "none"
    /\ ~Pbkdf2Sha256(p, PrefixedSalt, DEF_ITERS).raised
    /\ stored' = PrefixedPack(fmt, p)
    /\ issued' = [Issued("prefixed_pack", "none", p, DEF_ITERS, PrefixedSalt)
                      EXCEPT !.detail = fmt]
    /\ Fresh

\* Lines the operator types at the prompt of the command-line entry point;
\* input() returns the line without its newline.
EnteredLines == {<<"a">>, <<" ", "a">>, <<"a", " ">>, <<" ">>}

\* python make_admin_hash.py: the line read is stripped, hashed with the
\* default iteration count and printed; the printed line is put in the store.
Main(line, k) ==
    LET pw == Strip(line)
        h == HashPasswordWith(pw, DEF_ITERS, Urandom(k))
    IN  /\ issued.by = "none"
        /\ ~h.raised
        /\ stored' = h.value
        /\ issued' = [Issued("main", "canonical", pw, DEF_ITERS, Urandom(k))
                          EXCEPT !.detail = line]
        /\ Fresh

\* verify_password(line, stored) is called with the line the operator typed.
VerifyEntered ==
    /\ issued.by = "main"
    /\ issued.edit = "none"
    /\ password' = issued.detail
    /\ result' = Called(VerifyPassword(issued.detail, stored))
    /\ UNCHANGED <<stored, issued>>
    /\ UNCHANGED appVars

Next ==
    \/ \E p \in Passwords, n \in IterCounts, k \in 1..NumSalts : HashPassword(p, n, k)
    \/ \E p \in Passwords, n \in IterCounts, k \in 1..NumSalts : HashPasswordLegacy(p, n, k)
    \/ \E fmt \in Formats, p \in Passwords, n \in IterCounts, salt \in ForeignSalts :
          Import(fmt, p, n, salt)
    \/ \E text \in OtherTexts : StoreText(text)
    \/ Reset
    \/ \E p \in Passwords : Verify(p)
    \/ \E k \in 1..2 : DropFields(k)
    \/ \E extra \in ExtraFields : AddField(extra)
    \/ \E c \in JunkChars : JunkInSalt(c)
    \/ \E c \in JunkChars : JunkInDigest(c)
    \/ \E c \in JunkChars : JunkInPack(c)
    \/ SetIterations
    \/ \E m \in {0, DKLEN - 1} : CutKey(m)
    \/ \E w1 \in WhitespaceRuns, w2 \in WhitespaceRuns : PadWhitespace(w1, w2)
    \/ \E fmt \in Formats, p \in Passwords : ImportPrefixedPack(fmt, p)
    \/ \E line \in EnteredLines, k \in 1..NumSalts : Main(line, k)
    \/ VerifyEntered

Spec == Init /\ [][Next]_vars

(***************************************************************************)
(* The apps: the verifier they call, role check and login of               *)
(* routes_visit_app.                                                       *)
(***************************************************************************)
\* str.lower() on the characters of the model.
LowerCase(text) ==
    [i \in DOMAIN text |->
        IF \E k \in DOMAIN Upper : Upper[k] = text[i]
        THEN Lower[CHOOSE k \in DOMAIN Upper : Upper[k] = text[i]]
        ELSE text[i]]

\* str.upper() on the characters of the model.
UpperCase(text) ==
    [i \in DOMAIN text |->
        IF \E k \in DOMAIN Lower : Lower[k] = text[i]
        THEN Upper[CHOOSE k \in DOMAIN Lower : Lower[k] = text[i]]
        ELSE text[i]]

\* sheets_utils.verify_password: it imports the verifier of make_admin_hash
\* when called, which raises where that module is missing.
ExternalVerify(d, raw, stored_text) ==
    IF d.external = "core_missing" THEN Raise("ImportError")
    ELSE VerifyPassword(raw, stored_text)

\* A wrapper that also accepts the plain-text match the verifier said no to.
AppVerifyPasswordOrPlain(d, raw, stored_text) ==
    LET ext == ExternalVerify(d, raw, stored_text)
    IN  \/ d.external # "import_failed" /\ ~ext.raised /\ ext.value
        \/ Strip(raw) = Strip(stored_text)

\* verify_password of routes_visit_app: the external verifier where it was
\* imported and returns, else the comparison of the stripped texts.
VerifyOrFallback(d, ext, raw, stored_text) ==
    IF d.external # "import_failed" /\ ~ext.raised THEN ext.value
    ELSE Strip(raw) = Strip(stored_text)

AppVerifyPassword(d, raw, stored_text) ==
    VerifyOrFallback(d, ExternalVerify(d, raw, stored_text), raw, stored_text)

EnabledRoles == {<<"u","s","e","r">>, <<"a","d","m","i","n">>, <<"s","u","p","e","r","a","d","m","i","n">>}

DisabledTokens ==
    {<<"i","n","a","c","t","i","v","e">>, <<"d","i","s","a","b","l","e","d">>, <<"b","l","o","c","k","e","d">>, <<"s","u","s","p","e","n","d","e","d">>, <<"d","e","l","e","t","e","d">>,
     <<"d","e","a","c","t","i","v","a","t","e","d">>, <<"0">>, <<"f","a","l","s","e">>, <<"n","o">>}

\* A role check that asks the configured roles before the disabled tokens.
RoleIsEnabledExtraFirst(status, extra) ==
    LET v == LowerCase(Strip(status))
    IN  IF v = <<>> THEN FALSE
        ELSE IF v \in EnabledRoles THEN TRUE
        ELSE v \in {LowerCase(Strip(x)) : x \in extra}

\* role_is_enabled(status), with `extra` the AGENT_ENABLED_ROLES secret.
RoleIsEnabled(status, extra) ==
    LET v == LowerCase(Strip(status))
    IN  IF v = <<>> THEN FALSE
        ELSE IF v \in EnabledRoles THEN TRUE
        ELSE IF v \in DisabledTokens THEN FALSE
        ELSE v \in {LowerCase(Strip(x)) : x \in extra}

\* A row of the agents sheet from its cells.
Agent(code, name, email, mobile, passcode, status) ==
    [agent_code |-> code, agent_name |-> name, agent_email |-> email,
     agent_mobile |-> mobile, passcode |-> passcode, agent_status |-> status]

\* The data rows of the agents sheet: Ann with a canonical credential of
\* "a"; Bob, inactive, with a legacy pack of "b"; a second row with Ann's
\* email; Cy with a role of the deployment and a plain-text passcode; Dee
\* without a status; Eve, whose agent code is Cy's email.
AgentsRows ==
    <<Agent(<<"A","1">>, <<"A","n","n">>, <<"A","n","n","@","x"," ">>, <<"1">>,
            HashPasswordWith(<<"a">>, DEF_ITERS, Urandom(1)).value, <<"u","s","e","r">>),
      Agent(<<"B","2">>, <<"B","o","b">>, <<"b","o","b","@","x">>, <<"2">>,
            HashPasswordLegacyWith(<<"b">>, DEF_ITERS, Urandom(1)).value, <<"I","n","a","c","t","i","v","e">>),
      Agent(<<"A","9">>, <<"I","m","p">>, <<"a","n","n","@","x">>, <<"3">>, <<"z","z">>, <<"a","d","m","i","n">>),
      Agent(<<"c","3">>, <<"C","y">>, <<"c","y","@","x">>, <<"4">>, <<"a">>, <<" ","M","a","n","a","g","e","r">>),
      Agent(<<"D","4">>, <<"D","e","e">>, <<"d","e","e","@","x">>, <<"5">>,
            HashPasswordWith(<<"a">>, DEF_ITERS, Urandom(1)).value, <<>>),
      Agent(<<"c","y","@","x">>, <<"E","v","e">>, <<"e","v","e","@","x">>, <<"6">>, <<"a">>, <<"A","d","m","i","n">>)>>

\* ws_to_df on the agents sheet of deployment d: every cell as a stripped
\* text.
AgentsDf(d) == [i \in DOMAIN d.agents |-> [c \in DOMAIN d.agents[i] |-> Strip(d.agents[i][c])]]

\* try_login(email, passcode) of routes_visit_app.
TryLogin(d, email_in, passcode_in) ==
    LET email == LowerCase(Strip(email_in))
        passcode == Strip(passcode_in)
        by_email == SelectSeq(AgentsDf(d), LAMBDA r : LowerCase(Strip(r.agent_email)) = email)
        by_code == SelectSeq(AgentsDf(d), LAMBDA r : LowerCase(Strip(r.agent_code)) = email)
        sel == IF by_email = <<>> THEN by_code ELSE by_email
        row == sel[1]
    IN  IF email = <<>> THEN None
        ELSE IF passcode = <<>> THEN None
        ELSE IF sel = <<>> THEN None
        ELSE IF ~RoleIsEnabled(row.agent_status, d.extra_roles) THEN None
        ELSE IF ~AppVerifyPassword(d, passcode, row.passcode) THEN None
        ELSE [code |-> Strip(row.agent_code), name |-> Strip(row.agent_name),
              email |-> Strip(row.agent_email), mobile |-> Strip(row.agent_mobile),
              role |-> Strip(row.agent_status)]

\* Deployments of routes_visit_app: whether sheets_utils could be imported
\* and make_admin_hash is there, and the AGENT_ENABLED_ROLES secret.
ExternalModes == {"available", "import_failed", "core_missing"}

ExtraRoleLists == {{}, {<<"M","a","n","a","g","e","r"," ">>, <<"i","n","a","c","t","i","v","e">>}}

Deployment(app, external, extra) ==
    [app |-> app, external |-> external, extra_roles |-> extra, pin |-> FALSE,
     agents |-> AgentsRows]

LoginDeployments ==
    {Deployment("routes_visit_app", m, x) : m \in ExternalModes, x \in ExtraRoleLists}

\* What is typed into the Email and Passcode inputs.
EmailInputs ==
    {<<>>, <<" ">>, <<" ","A","n","n","@","X"," ">>, <<"a","1">>, <<"B","O","B","@","x">>, <<"c","y","@","x">>, <<"d","e","e","@","x">>, <<"z","e","d">>}

PasscodeInputs == {<<>>, <<" ">>, <<"a">>, <<" ","a"," ">>, <<"b">>}

\* Stored passcodes the wrapper is called on.
StoredPasscodes(d) ==
    {AgentsDf(d)[1].passcode, AgentsDf(d)[2].passcode, <<"a">>, <<" ","a">>, <<"b"," ">>, <<>>}

LibAtRest == UNCHANGED <<stored, issued, password, result>>

InitLogin ==
    /\ stored = <<>>
    /\ issued = NotIssued
    /\ password = <<>>
    /\ result = NoResult
    /\ session = None
    /\ sheet = NoSheet
    /\ run = NoRun
    /\ deploy \in LoginDeployments

\* try_login(email, passcode) is called.
TryLoginCall(email_in, passcode_in) ==
    /\ run' = [kind |-> "try_login", email |-> email_in, passcode |-> passcode_in,
               login |-> TryLogin(deploy, email_in, passcode_in)]
    /\ UNCHANGED <<session, sheet, deploy>>
    /\ LibAtRest

\* verify_password(raw, stored) of routes_visit_app is called.
VerifyPasswordCall(raw) ==
    \E stored_text \in StoredPasscodes(deploy) :
        /\ run' = [kind |-> "verify_password", raw |-> raw, stored |-> stored_text,
                   value |-> AppVerifyPassword(deploy, raw, stored_text)]
        /\ UNCHANGED <<session, sheet, deploy>>
        /\ LibAtRest

NextLogin ==
    \/ \E e \in EmailInputs, p \in PasscodeInputs : TryLoginCall(e, p)
    \/ \E raw \in PasscodeInputs : VerifyPasswordCall(raw)

SpecLogin == InitLogin /\ [][NextLogin]_vars

(***************************************************************************)
(* The apps: one script run, from the login step to the save step.         *)
(***************************************************************************)
V1 == "routes_visit_app"

V2 == "routes_visit_app_v2"

\* What str() gives for a cell read by get_all_records: a cell that int()
\* accepts and that has no underscore is read as that integer, every other
\* cell is read as its text. Cells that only float() accepts are not among
\* the cells of the model.
Numericise(text) ==
    IF "_" \in Range(text) \/ PyInt(text).raised THEN text
    ELSE IF PyInt(text).value < 0 THEN <<"-">> \o IntToStr(0 - PyInt(text).value)
    ELSE IntToStr(PyInt(text).value)

\* The agents sheet as routes_visit_app_v2 reads it (get_all_records): the
\* rows by column name, in some deployments with a PIN column.
AgentsRecords(d) ==
    IF d.pin
    THEN [i \in DOMAIN d.agents |->
            [c \in DOMAIN d.agents[i] \cup {"PIN"} |->
                IF c = "PIN"
                THEN Numericise(<<" ">> \o d.agents[i].agent_mobile \o d.agents[i].agent_mobile)
                ELSE Numericise(d.agents[i][c])]]
    ELSE [i \in DOMAIN d.agents |->
            [c \in DOMAIN d.agents[i] |-> Numericise(d.agents[i][c])]]

\* password_col: the first of the four names that is a column.
PasswordCol(columns) ==
    LET candidates == SelectSeq(<<"Password", "PIN", "Passcode", "Secret">>,
                                LAMBDA c : c \in columns)
    IN  IF candidates = <<>> THEN "" ELSE candidates[1]

\* try_login(code, secret) of routes_visit_app_v2.
TryLoginV2(d, code, secret) ==
    LET df == SelectSeq(AgentsRecords(d), LAMBDA r :
                  UpperCase(Strip(r.agent_code)) = UpperCase(Strip(code)))
        password_col == PasswordCol(DOMAIN AgentsRecords(d)[1])
        stored_text == Strip(df[1][password_col])
        agent_name == IF "agent_name" \in DOMAIN df[1] THEN df[1].agent_name ELSE <<>>
    IN  IF code = <<>> THEN None
        ELSE IF df = <<>> THEN None
        ELSE IF password_col # "" /\ secret = <<>> THEN None
        ELSE IF password_col # "" /\ Strip(secret) # stored_text THEN None
        ELSE [code |-> Strip(code), name |-> Strip(agent_name)]

\* A session that keeps the signed-in agent when a sign-in fails.
SessionKeptOnFailure(auth, login_btn, login) ==
    IF login_btn /\ login # None THEN login ELSE auth

\* if login_btn: st.session_state.auth = try_login(...)
SessionAfterLogin(auth, login_btn, login) ==
    IF login_btn THEN login ELSE auth

\* A gate that lets every run through.
LoginGateOpen(auth) == FALSE

\* if st.session_state.auth is None: st.stop()
LoginGate(auth) == auth = None

\* A boolean written with value_input_option RAW, as the sheet returns it.
CellText(value) == IF value THEN <<"T","R","U","E">> ELSE <<"F","A","L","S","E">>

\* is_unvisited_cell(val) of routes_visit_app, on a cell text.
IsUnvisitedCell(val) ==
    LowerCase(Strip(val)) \in {<<>>, <<"n">>, <<"n","o">>, <<"0">>, <<"f","a","l","s","e">>}

\* The "Show only Unvisited" predicate of routes_visit_app_v2.
IsUnvisitedV2(val) ==
    Strip(val) = <<>> \/ UpperCase(val) \in {<<"N">>, <<"N","O">>, <<"0">>}

\* header_map: the last column that carries each header name.
HeaderMap(header) ==
    [name \in Range(header) |->
        CHOOSE i \in DOMAIN header :
            header[i] = name /\ \A j \in DOMAIN header : header[j] = name => j <= i]

\* df_view: the sheet rows left by the "Only Unvisited" filter.
ViewRows(app, sh, only_unvisited) ==
    {r + 1 : r \in {i \in DOMAIN sh.rows :
        \/ ~only_unvisited
        \/ "Visited" \notin Range(sh.header)
        \/ LET val == sh.rows[i][HeaderMap(sh.header)["Visited"]]
           IN  IF app = V2 THEN IsUnvisitedV2(val) ELSE IsUnvisitedCell(Strip(val))}}

\* f"{n:0{width}d}"
ZeroPad(n, width) ==
    LET d == IntToStr(n) IN [i \in 1..(width - Len(d)) |-> "0"] \o d

\* month_label(dt)
MonthLabel(dt) == ZeroPad(dt.year, 4) \o <<"-">> \o ZeroPad(dt.month, 2)

\* dt.strftime("%Y-%m-%d")
Strftime(dt) == MonthLabel(dt) \o <<"-">> \o ZeroPad(dt.day, 2)

\* text.replace(c, "")
Remove(text, c) == SelectSeq(text, LAMBDA x : x # c)

\* The agent columns each app assigns a record with.
AgentCodeCol(app) == IF app = V2 THEN "agent_code" ELSE "Agent_Code"

AgentNameCol(app) == IF app = V2 THEN "agent_name" ELSE "Agent_Name"

\* An updates dict that assigns the record whatever the checkbox says.
UpdatesAlwaysAssign(app, form, auto_assign, agent, header) ==
    <<<<"Visited", IF app = V2 THEN form.visited_choice ELSE CellText(form.visited)>>,
      <<"Visit_date", Strftime(form.date)>>,
      <<"Contact_Person", form.person>>,
      <<"Contact_Number", Remove(Remove(form.number, " "), "-")>>,
      <<"Visit_Month", IF form.month # <<>> THEN form.month ELSE MonthLabel(form.date)>>,
      <<"Business_Month", form.bm>>,
      <<"Remarks", form.remarks>>,
      <<AgentCodeCol(app), agent.code>>>>

\* The updates dict of a save, in the order of its keys.
Updates(app, form, auto_assign, agent, header) ==
    <<<<"Visited", IF app = V2 THEN form.visited_choice ELSE CellText(form.visited)>>,
      <<"Visit_date", Strftime(form.date)>>,
      <<"Contact_Person", form.person>>,
      <<"Contact_Number", Remove(Remove(form.number, " "), "-")>>,
      <<"Visit_Month", IF form.month # <<>> THEN form.month ELSE MonthLabel(form.date)>>,
      <<"Business_Month", form.bm>>,
      <<"Remarks", form.remarks>>>>
    \o (IF ~auto_assign THEN <<>>
        ELSE <<<<AgentCodeCol(app), agent.code>>>>
             \o (IF AgentNameCol(app) \in Range(header) /\ agent.name # <<>>
                 THEN <<<<AgentNameCol(app), agent.name>>>>
                 ELSE <<>>))

\* The requests of the batch update: one cell <<row, column, value>> for
\* each update whose column name is in the header row.
Requests(row_number, updates, header) ==
    {<<row_number, HeaderMap(header)[updates[k][1]], updates[k][2]>> :
        k \in {j \in DOMAIN updates : updates[j][1] \in Range(header)}}

\* routes_ws.batch_update(requests)
BatchUpdate(sh, requests) ==
    [sh EXCEPT !.rows =
        [i \in DOMAIN sh.rows |->
            [c \in DOMAIN sh.rows[i] |->
                IF \E q \in requests : q[1] = i + 1 /\ q[2] = c
                THEN (CHOOSE q \in requests : q[1] = i + 1 /\ q[2] = c)[3]
                ELSE sh.rows[i][c]]]]

\* One run of the script of app d.app on the widget values `in`, with the
\* session's auth and the routes sheet as they are: what the run leaves.
\* `login` is what try_login returns in the run: None where it is not
\* called. The run stops at the login gate, at an empty view, on the
\* TypeError of agent["code"], or it reaches the end; a save is followed by
\* a rerun without a click, which changes nothing.
Script(d, auth, sh, in, login) ==
    LET agent == SessionAfterLogin(auth, in.click = "signin", login)
        view == ViewRows(d.app, sh, in.only_unvisited)
        selected == IF in.pick \in view THEN in.pick
                    ELSE CHOOSE r \in view : \A q \in view : r <= q
        requests == Requests(selected,
                             Updates(d.app, in.form, in.auto_assign, agent, sh.header),
                             sh.header)
        seen == [kind |-> "script", click |-> in.click, was |-> auth, login |-> login,
                 stage |-> "end", row |-> 0, auto_assign |-> in.auto_assign,
                 writes |-> {}]
        left(stage) == [auth |-> agent, sheet |-> sh, run |-> [seen EXCEPT !.stage = stage]]
    IN  IF LoginGate(agent) THEN left("gate")
        ELSE IF view = {} THEN left("filter")
        ELSE IF in.click # "save" THEN left("end")
        ELSE IF in.auto_assign /\ agent = None THEN left("error")
        ELSE [auth |-> agent,
              sheet |-> BatchUpdate(sh, requests),
              run |-> [seen EXCEPT !.stage = "saved", !.row = selected,
                                   !.writes = requests]]

\* The routes sheets: one with every column of both apps, one without most
\* of them and with a column of its own.
FullSheet ==
    [header |-> <<"Name", "Visited", "Visit_date", "Contact_Person", "Contact_Number",
                  "Visit_Month", "Business_Month", "Remarks", "Agent_Code", "Agent_Name",
                  "agent_code", "agent_name">>,
     rows |-> <<<<<<"P","1">>, <<>>, <<>>, <<>>, <<>>, <<>>, <<>>, <<>>, <<>>, <<>>, <<>>, <<>>>>,
                <<<<"P","2">>, <<"N">>, <<"2","0","2","5","-","0","1","-","0","2">>, <<"R","a","j">>, <<"1","2">>, <<"2","0","2","5","-","0","1">>, <<"2","0","2","5","-","0","1">>,
                  <<"o","l","d">>, <<"B","2">>, <<"B","o","b">>, <<"B","2">>, <<"B","o","b">>>>>>]

PartialSheet ==
    [header |-> <<"Name", "Visited", "Notes", "Remarks", "Agent_Code", "agent_code">>,
     rows |-> <<<<<<"Q","1">>, <<>>, <<"k","e","e","p">>, <<>>, <<>>, <<>>>>,
                <<<<"Q","2">>, <<"n","o">>, <<"k","e","e","p"," ","t","o","o">>, <<"x">>, <<"A","1">>, <<"A","1">>>>>>]

InitialSheets == {FullSheet, PartialSheet}

\* What the agent enters in the edit widgets.
Forms ==
    {[visited |-> TRUE, visited_choice |-> <<"Y">>, date |-> [year |-> 2025, month |-> 11, day |-> 5],
      person |-> <<"R","a","j">>, number |-> <<"9","8"," ","7","-","6">>, month |-> <<>>, bm |-> <<"2","0","2","5","-","1","1">>,
      remarks |-> <<"o","k">>],
     [visited |-> FALSE, visited_choice |-> <<"N">>, date |-> [year |-> 2024, month |-> 1, day |-> 31],
      person |-> <<>>, number |-> <<>>, month |-> <<"2","0","2","3","-","1","2">>, bm |-> <<"2","0","2","4","-","0","1">>,
      remarks |-> <<>>]}

\* What is typed into the two login inputs before Sign In is clicked.
SessionLogins ==
    {<<<<" ","A","n","n","@","X"," ">>, <<"a">>>>, <<<<"a","1">>, <<" ","a"," ">>>>, <<<<"c","y","@","x">>, <<"a">>>>, <<<<"c","y","@","x">>, <<" ","6","6">>>>,
     <<<<"B","O","B","@","x">>, <<"b">>>>, <<<<>>, <<>>>>}

\* The deployments of the two apps.
AppDeployments ==
    {Deployment(V1, "available", {}),
     Deployment(V1, "import_failed", {<<"M","a","n","a","g","e","r"," ">>, <<"i","n","a","c","t","i","v","e">>}),
     Deployment(V2, "unused", {}),
     [Deployment(V2, "unused", {}) EXCEPT !.pin = TRUE]}

\* The widget values of a run in which no button was clicked.
NoClick ==
    [click |-> "none", email |-> <<>>, passcode |-> <<>>, only_unvisited |-> TRUE,
     pick |-> 0, form |-> CHOOSE f \in Forms : f.visited, auto_assign |-> TRUE]

InitApp ==
    /\ stored = <<>>
    /\ issued = NotIssued
    /\ password = <<>>
    /\ result = NoResult
    /\ session = None
    /\ run = NoRun
    /\ sheet \in InitialSheets
    /\ deploy \in AppDeployments

\* try_login of the app of deployment d.
Login(d, email, passcode) ==
    IF d.app = V2 THEN TryLoginV2(d, email, passcode) ELSE TryLogin(d, email, passcode)

\* A run because Sign In was clicked.
SignInRun(email, passcode) ==
    \E left \in {Script(deploy, session, sheet,
                        [NoClick EXCEPT !.click = "signin", !.email = email,
                                        !.passcode = passcode],
                        Login(deploy, email, passcode))} :
        /\ session' = left.auth
        /\ sheet' = left.sheet
        /\ run' = left.run
        /\ UNCHANGED deploy
        /\ LibAtRest

\* A run because Save Update was clicked.
SaveRun(only_unvisited, pick, form, auto_assign) ==
    \E left \in {Script(deploy, session, sheet,
                        [NoClick EXCEPT !.click = "save", !.only_unvisited = only_unvisited,
                                        !.pick = pick, !.form = form,
                                        !.auto_assign = auto_assign],
                        None)} :
        /\ session' = left.auth
        /\ sheet' = left.sheet
        /\ run' = left.run
        /\ UNCHANGED deploy
        /\ LibAtRest

\* A run because another widget changed.
RefreshRun ==
    \E left \in {Script(deploy, session, sheet, NoClick, None)} :
        /\ session' = left.auth
        /\ sheet' = left.sheet
        /\ run' = left.run
        /\ UNCHANGED deploy
        /\ LibAtRest

NextApp ==
    \/ \E login \in SessionLogins : SignInRun(login[1], login[2])
    \/ \E only_unvisited \in BOOLEAN, pick \in 2..3, form \in Forms, auto_assign \in BOOLEAN :
          SaveRun(only_unvisited, pick, form, auto_assign)
    \/ RefreshRun

SpecApp == InitApp /\ [][NextApp]_vars

(***************************************************************************)
(* The login of routes_visit_app_v2 on agents sheets with and without      *)
(* columns for a secret.                                                   *)
(***************************************************************************)
\* The cells of an agents sheet with every column a deployment may have:
\* Ann; a second row whose code reads as Ann's; Bob without a secret; an
\* agent whose code and PIN are digits; a row without a code.
V2AgentsCells ==
    <<[agent_code |-> <<"A","1">>, agent_name |-> <<" ","A","n","n"," ">>, Password |-> <<"w","1">>, PIN |-> <<"0","1","2","3">>,
       Passcode |-> <<" ","c","1"," ">>, Secret |-> <<"s","1">>, passcode |-> <<"x">>],
      [agent_code |-> <<" ","a","1">>, agent_name |-> <<"D","u","p">>, Password |-> <<"w","2">>, PIN |-> <<"6","6">>,
       Passcode |-> <<"c","2">>, Secret |-> <<"s","2">>, passcode |-> <<"x">>],
      [agent_code |-> <<"b","2"," ">>, agent_name |-> <<"B","o","b">>, Password |-> <<>>, PIN |-> <<>>,
       Passcode |-> <<>>, Secret |-> <<>>, passcode |-> <<"x">>],
      [agent_code |-> <<"0","0","7">>, agent_name |-> <<"B","o","n","d">>, Password |-> <<"w","1">>, PIN |-> <<"7">>,
       Passcode |-> <<"c","4">>, Secret |-> <<"s","1">>, passcode |-> <<>>],
      [agent_code |-> <<>>, agent_name |-> <<>>, Password |-> <<"w","1">>, PIN |-> <<"6","6">>,
       Passcode |-> <<>>, Secret |-> <<>>, passcode |-> <<>>]>>

\* The columns an agents sheet has besides agent_code.
V2ColumnSets ==
    {{"agent_name"}, {"agent_name", "passcode"}, {"agent_name", "PIN"}, {"PIN"},
     {"agent_name", "Secret", "PIN"}, {"agent_name", "Passcode", "Secret", "passcode"},
     {"agent_name", "Password", "PIN", "Passcode", "Secret"}}

\* The deployments of routes_visit_app_v2, one for each agents sheet.
V2LoginDeployments ==
    {[Deployment(V2, "unused", {}) EXCEPT !.agents =
        [i \in DOMAIN V2AgentsCells |->
            [c \in {"agent_code"} \cup columns |-> V2AgentsCells[i][c]]]] :
     columns \in V2ColumnSets}

\* What is typed into the Agent Code and Password / PIN inputs.
CodeInputs == {<<>>, <<" ">>, <<" ","a","1"," ">>, <<"B","2">>, <<"0","0","7">>, <<"7">>, <<"z","e","d">>}

SecretInputs == {<<>>, <<" ">>, <<"w","1">>, <<"0","1","2","3">>, <<"1","2","3">>, <<" ","c","1">>, <<"s","1">>, <<"6","6">>}

InitLoginV2 ==
    /\ stored = <<>>
    /\ issued = NotIssued
    /\ password = <<>>
    /\ result = NoResult
    /\ session = None
    /\ sheet = NoSheet
    /\ run = NoRun
    /\ deploy \in V2LoginDeployments

\* try_login(code, secret) of routes_visit_app_v2 is called.
TryLoginV2Call(code, secret) ==
    /\ run' = [kind |-> "try_login_v2", code |-> code, secret |-> secret,
               login |-> TryLoginV2(deploy, code, secret)]
    /\ UNCHANGED <<session, sheet, deploy>>
    /\ LibAtRest

NextLoginV2 == \E code \in CodeInputs, secret \in SecretInputs : TryLoginV2Call(code, secret)

SpecLoginV2 == InitLoginV2 /\ [][NextLoginV2]_vars

(***************************************************************************)
(* Sanity of the model.                                                    *)
(***************************************************************************)
TypeOK ==
    /\ stored \in Seq(DOMAIN Ord)
    /\ password \in Passwords \cup EnteredLines
    /\ result.called \in BOOLEAN /\ result.raised \in BOOLEAN /\ result.value \in BOOLEAN
    /\ issued.by \in {"none", "hash_password", "hash_password_legacy_b64pack", "import", "other",
                     "prefixed_pack", "main"}

\* The idealised key derivation has no collision on the inputs of the model.
KdfInputs ==
    {<<Utf8Encode(p).value, salt, n>> :
        p \in {q \in Passwords : ~Utf8Encode(q).raised}, salt \in ForeignSalts, n \in IterCounts}

KdfCollisionFree ==
    \A x \in KdfInputs, y \in KdfInputs :
        HashlibPbkdf2(x[1], x[2], x[3]) = HashlibPbkdf2(y[1], y[2], y[3]) => x = y

(***************************************************************************)
(* Claims.                                                                 *)
(***************************************************************************)
\* verify_password returned TRUE / returned FALSE on the stored text.
Accepted == result.called /\ ~result.raised /\ result.value

Rejected == result.called /\ ~result.raised /\ ~result.value

\* C1: round trip.  A value returned by hash_password(p, n), n >= 1, and
\* verified with the same password p gives true, whatever the salt drawn.
C1_RoundTrip ==
    (/\ issued.by = "hash_password"
     /\ issued.edit = "none"
     /\ result.called
     /\ password = issued.pw) => Accepted

\* C1 happens: a non-ASCII password was hashed and verified, and so was the
\* empty password in another run (the witness state is the former).
C1_Witness ==
    /\ issued.by = "hash_password"
    /\ issued.edit = "none"
    /\ issued.pw = <<"U+00E9">>
    /\ issued.iters = 1
    /\ password = issued.pw
    /\ Accepted

\* C2: negative.  A value returned by hash_password(p1, n) and verified with
\* another password p2 gives false.
C2_Negative ==
    (/\ issued.by = "hash_password"
     /\ issued.edit = "none"
     /\ result.called
     /\ password # issued.pw) => Rejected

C2_Witness ==
    /\ issued.by = "hash_password"
    /\ issued.edit = "none"
    /\ issued.pw = <<>>
    /\ password = <<"a">>
    /\ Rejected

\* C3: verify_password never raises.  Every call returns a boolean, and a
\* call whose parsing, decoding or derivation raised returns false.
C3_NeverRaises ==
    result.called =>
        /\ ~result.raised
        /\ result.value \in BOOLEAN
        /\ VerifyDispatch(password, Strip(stored)).raised => ~result.value

\* C3 happens: the try block raised on a stored text that is no credential.
C3_Witness ==
    /\ issued.by = "other"
    /\ VerifyDispatch(password, Strip(stored)).raised
    /\ Rejected

\* C4: cross-format parsing.  The canonical, the alternate and the modular
\* crypt string built from one (password, salt, iterations, key) all verify
\* true against that password and false against any other.
C4_CrossFormat ==
    (/\ issued.fmt \in Formats
     /\ issued.edit = "none"
     /\ result.called) =>
        /\ result.value = (password = issued.pw)
        /\ \A fmt \in Formats :
              LET other == VerifyPassword(password,
                                          Credential(fmt, ItersField, SaltField, DigestField))
              IN  ~other.raised /\ other.value = (password = issued.pw)

C4_Witness ==
    /\ issued.fmt = "modular"
    /\ issued.edit = "none"
    /\ issued.salt = Urandom(1)
    /\ password = issued.pw
    /\ Accepted
    /\ VerifyPassword(password,
                      Credential("alternate", ItersField, SaltField, DigestField)).value

\* C5: legacy fallback.  A legacy pack made with the default iteration count
\* verifies true against its password and false against every other one.
C5_LegacyFallback ==
    (/\ issued.by = "hash_password_legacy_b64pack"
     /\ issued.edit = "none"
     /\ issued.iters = DEF_ITERS
     /\ result.called) =>
        /\ ~result.raised
        /\ result.value = (password = issued.pw)

C5_Witness ==
    /\ issued.by = "hash_password_legacy_b64pack"
    /\ issued.edit = "none"
    /\ issued.iters = DEF_ITERS
    /\ password = issued.pw
    /\ Accepted

\* C6: a legacy pack made with another iteration count than the default
\* fails to verify, silently, also with the right password.
C6_LegacyOtherIterations ==
    (/\ issued.by = "hash_password_legacy_b64pack"
     /\ issued.edit = "none"
     /\ issued.iters # DEF_ITERS
     /\ result.called
     /\ password = issued.pw) => Rejected

C6_Witness ==
    /\ issued.by = "hash_password_legacy_b64pack"
    /\ issued.edit = "none"
    /\ issued.iters = 1
    /\ password = issued.pw
    /\ Rejected

\* C7: a prefixed credential with fewer or more separator-delimited fields
\* than its format prescribes verifies false for every password.
C7_WrongFieldCount ==
    (/\ issued.fmt \in Formats
     /\ issued.edit \in {"drop_fields", "add_field"}
     /\ result.called) => Rejected

\* C8: a credential whose salt field, digest field or legacy body holds a
\* character outside the base64 alphabets verifies false for every password.
C8_MalformedBase64 ==
    (/\ issued.edit \in {"junk_in_salt", "junk_in_digest", "junk_in_pack"}
     /\ issued.detail \in {<<"!">>, <<"U+00E9">>}
     /\ result.called) => Rejected

\* An iteration field that is a plain integer: decimal digits only, of a
\* value of at least 1.
IsPlainInteger(text) ==
    /\ text # <<>>
    /\ \A i \in DOMAIN text : IsDigit(text[i])
    /\ DigitsValue(text, 0) >= 1

\* C9: a prefixed credential whose iteration field is not a plain integer
\* verifies false for every password.
C9_NonIntegerIterations ==
    (/\ issued.edit = "iterations"
     /\ ~IsPlainInteger(issued.detail)
     /\ result.called) => Rejected

\* C10: a credential whose decoded salt is empty, or whose decoded key is not
\* 32 bytes long, verifies false for every password.
C10_SaltOrKeyLength ==
    (/\ \/ issued.by = "import" /\ issued.edit = "none" /\ issued.salt = <<>>
        \/ issued.edit = "cut_key"
     /\ result.called) => Rejected

\* C11: whitespace tolerance.  A stored text surrounded by runs of spaces and
\* newlines gives, for every password, the outcome the text without the runs
\* gives, whatever its format.
C11_WhitespaceTolerance ==
    (/\ issued.edit = "whitespace"
     /\ result.called) => result = Called(VerifyPassword(password, Unpadded))

\* C11 happens: a canonical credential between a space and newline before
\* it and a newline after it is accepted with its password.
C11_Witness ==
    /\ issued.edit = "whitespace"
    /\ issued.by = "hash_password"
    /\ issued.iters = DEF_ITERS
    /\ issued.detail = <<<<" ", "\n">>, <<"\n">>>>
    /\ password = issued.pw
    /\ Accepted

\* The parser verify_password owes a stripped text: the one of the prefix the
\* text starts with, the legacy parser when it starts with none.
OwedOutcome(pw_text, s) ==
    CatchException(
        CASE StartsWith(s, CanonicalPrefix) -> VerifyCanonical(pw_text, s)
          [] StartsWith(s, AlternatePrefix) -> VerifyAlternate(pw_text, s)
          [] StartsWith(s, ModularPrefix) -> VerifyModular(pw_text, s)
          [] OTHER -> VerifyLegacy(pw_text, s))

\* C12: format dispatch.  The outcome of verify_password is the outcome of
\* the one parser the prefix of the stripped text selects, and of the legacy
\* parser only when the text starts with none of the three prefixes; a text
\* with a recognized prefix that its parser fails on is rejected although the
\* legacy parser would accept it.
C12_FormatDispatch ==
    result.called =>
        /\ result = Called(OwedOutcome(password, Strip(stored)))
        /\ issued.by = "prefixed_pack" =>
              /\ VerifyLegacy(issued.pw, Strip(stored)).value
              /\ Rejected

\* C12 happens: a text with the modular-crypt prefix that is a valid legacy
\* pack of its password is rejected with that password.
C12_Witness ==
    /\ issued.by = "prefixed_pack"
    /\ issued.detail = "modular"
    /\ StartsWith(stored, ModularPrefix)
    /\ password = issued.pw
    /\ VerifyLegacy(password, stored).value
    /\ Rejected

\* The characters of URL-safe base64 without padding.
UrlsafeChars == (Range(B64Alphabet) \ {"+", "/"}) \cup {"-", "_"}

\* A field with "=" appended up to the next multiple of four characters.
RestorePadding(text) == text \o [i \in 1..((4 - (Len(text) % 4)) % 4) |-> "="]

\* C13: canonical output shape.  What hash_password(p, n) returns is the text
\* pbkdf2_sha256$<n>$<salt_b64>$<key_b64>: four "$"-separated fields, the
\* second the decimal text of n, the third decoding to the 16 bytes drawn, the
\* fourth to the 32-byte key of (p, those bytes, n), both fields of URL-safe
\* base64 characters only, with no "=" in the text.
C13_CanonicalShape ==
    (issued.by = "hash_password" /\ issued.edit = "none") =>
        LET parts == Split(stored, "$", -1)
            salt == UrlsafeB64Decode(RestorePadding(parts[3]))
            key == UrlsafeB64Decode(RestorePadding(parts[4]))
        IN  /\ Len(parts) = 4
            /\ parts[1] \o <<"$">> = CanonicalPrefix
            /\ parts[2] = IntToStr(issued.iters)
            /\ PyInt(parts[2]) = Ok(issued.iters)
            /\ Range(parts[3]) \cup Range(parts[4]) \subseteq UrlsafeChars
            /\ salt = Ok(issued.salt)
            /\ Len(salt.value) = SALT_LEN
            /\ key = Pbkdf2Sha256(issued.pw, salt.value, issued.iters)
            /\ Len(key.value) = DKLEN
            /\ "=" \notin Range(stored)
            /\ stored = Credential("canonical", IntToStr(issued.iters),
                                   B64Field(salt.value), B64Field(key.value))

\* C13 happens: hash_password returned for a non-ASCII password and the
\* default iteration count, with a salt and a key that need the two URL-safe
\* characters.
C13_Witness ==
    /\ issued.by = "hash_password"
    /\ issued.edit = "none"
    /\ issued.pw = <<"U+00E9">>
    /\ issued.iters = DEF_ITERS
    /\ {"-", "_"} \subseteq Range(stored)
    /\ Len(Split(stored, "$", -1)) = 4

\* C14: command-line round trip.  The line the entry point prints verifies
\* true against exactly the text the operator entered, also when that text
\* starts or ends with whitespace.
C14_CliRoundTrip ==
    (/\ issued.by = "main"
     /\ issued.edit = "none"
     /\ result.called
     /\ password = issued.detail) => Accepted

\* C15: constant-time comparison.  In each of the four branches the
\* comparison of the recomputed key with the stored key looks at every one of
\* the 32 bytes of the stored key, for the right password and for a wrong one
\* alike: the work of the comparison does not tell where the first mismatch
\* is.
C15_ConstantTime ==
    (/\ issued.by \in {"hash_password", "hash_password_legacy_b64pack", "import"}
     /\ issued.edit = "none"
     /\ result.called
     /\ ~Utf8Encode(password).raised) =>
        /\ ~result.raised
        /\ result.examined = DKLEN

\* C15 happens: a legacy pack was verified with a wrong password whose key
\* differs from the stored key before the last byte, where a comparison with
\* "==" would have stopped, and all 32 bytes were looked at.
C15_Witness ==
    /\ issued.by = "hash_password_legacy_b64pack"
    /\ issued.edit = "none"
    /\ issued.iters = DEF_ITERS
    /\ password # issued.pw
    /\ ~Utf8Encode(password).raised
    /\ ShortCircuitExamined(KeyOf(password, issued.salt, DEF_ITERS), IssuedKey) < DKLEN
    /\ Rejected
    /\ result.examined = DKLEN

\* The stripped, lowercased text of a cell or an input.
Norm(text) == LowerCase(Strip(text))

\* The rows try_login may take the identity from: those whose email is the
\* input, and only when there is none, those whose agent code is.
MatchingRows(email_in) ==
    LET by_email == {i \in DOMAIN AgentsDf(deploy) : Norm(AgentsDf(deploy)[i].agent_email) = Norm(email_in)}
        by_code == {i \in DOMAIN AgentsDf(deploy) : Norm(AgentsDf(deploy)[i].agent_code) = Norm(email_in)}
    IN  IF by_email # {} THEN by_email ELSE by_code

\* C16: login gate of routes_visit_app.  try_login returns an identity only
\* if email and passcode are non-empty after trimming, a row of the agents
\* sheet matches the lowercased input by email (by agent code when no email
\* matches), the status of that row is user, admin, superadmin or a role of
\* the deployment, and neither empty nor a disabled token, and
\* verify_password(passcode, stored passcode) is true; the identity is that
\* row's.  In every other case it returns None.
C16_LoginGate ==
    run.kind = "try_login" =>
        \/ run.login = None
        \/ /\ Strip(run.email) # <<>>
           /\ Strip(run.passcode) # <<>>
           /\ \E i \in MatchingRows(run.email) :
                 LET row == AgentsDf(deploy)[i]
                     status == Norm(row.agent_status)
                 IN  /\ status \in EnabledRoles \cup {Norm(x) : x \in deploy.extra_roles}
                     /\ status \notin DisabledTokens \cup {<<>>}
                     /\ AppVerifyPassword(deploy, Strip(run.passcode), row.passcode)
                     /\ run.login.code = row.agent_code
                     /\ run.login.email = row.agent_email
                     /\ run.login.role = row.agent_status

\* C16 happens: a login by agent code, with the passcode between spaces.
C16_Witness ==
    /\ run.kind = "try_login"
    /\ run.email = <<"a","1">>
    /\ run.passcode = <<" ","a"," ">>
    /\ run.login # None
    /\ run.login.name = <<"A","n","n">>

\* C19: the wrapper returns what the external verifier returns whenever that
\* one is available and does not raise, also a false where the plain texts
\* match; it compares the stripped texts only where the external verifier
\* is unavailable or raises.
C19_Wrapper ==
    run.kind = "verify_password" =>
        IF deploy.external = "available"
        THEN run.value = VerifyPassword(run.raw, run.stored).value
        ELSE run.value = (Strip(run.raw) = Strip(run.stored))

\* C19 happens: the verifier is available and says no to a passcode stored
\* as plain text, and the wrapper says no although the texts match.
C19_Witness ==
    /\ run.kind = "verify_password"
    /\ deploy.external = "available"
    /\ Strip(run.raw) = Strip(run.stored)
    /\ Strip(run.raw) # <<>>
    /\ ~run.value

\* C17: in both apps the session's auth starts as None and is changed only
\* by a run in which Sign In was clicked, which replaces it by what
\* try_login returned for the inputs (None included: a failed sign-in signs
\* the agent out); every other run leaves it as it was.
C17_SessionAuth ==
    [][/\ run = NoRun => session = None
       /\ run'.kind = "script" =>
            /\ run'.was = session
            /\ run'.click = "signin" => session' = run'.login
            /\ run'.click # "signin" => session' = session]_vars

\* A failed sign-in by a signed-in agent, after which nobody is signed in.
C17_Witness ==
    /\ run.kind = "script"
    /\ run.click = "signin"
    /\ run.was # None
    /\ run.login = None
    /\ session = None

\* C18: in both apps a run that ends with nobody signed in stopped at the
\* login gate and wrote nothing to the routes sheet.
C18_NoWriteBeforeLogin ==
    run.kind = "script" /\ session = None => run.stage = "gate" /\ run.writes = {}

\* Save Update clicked with nobody signed in: the run stops at the gate.
C18_Witness ==
    /\ run.kind = "script"
    /\ run.click = "save"
    /\ session = None
    /\ run.stage = "gate"

\* The columns a save may write, and those it may write only when the
\* record is assigned to the agent.
SaveColumns ==
    {"Visited", "Visit_date", "Contact_Person", "Contact_Number", "Visit_Month",
     "Business_Month", "Remarks"}

AgentColumns == {"Agent_Code", "Agent_Name", "agent_code", "agent_name"}

WritableColumns(assigned) == SaveColumns \cup (IF assigned THEN AgentColumns ELSE {})

\* C20: a run changes the routes sheet only by a save, and a save writes
\* only cells of the selected row, only in columns that are in the header
\* row, and only the seven visit columns, plus the agent columns when the
\* record is assigned; the header row and every other cell stay as they were.
C20_SaveFrame ==
    [][run'.kind = "script" =>
        /\ sheet'.header = sheet.header
        /\ DOMAIN sheet'.rows = DOMAIN sheet.rows
        /\ \A q \in run'.writes :
              /\ run'.click = "save"
              /\ q[1] = run'.row
              /\ q[2] \in DOMAIN sheet.header
              /\ sheet.header[q[2]] \in WritableColumns(run'.auto_assign)
        /\ \A i \in DOMAIN sheet.rows :
              /\ DOMAIN sheet'.rows[i] = DOMAIN sheet.rows[i]
              /\ \A c \in DOMAIN sheet.rows[i] :
                    sheet'.rows[i][c] # sheet.rows[i][c] =>
                        \E q \in run'.writes : q = <<i + 1, c, sheet'.rows[i][c]>>]_vars

\* A save without assignment on the sheet that lacks most columns: cells
\* were written, and the agent columns and the sheet's own column were not.
C20_Witness ==
    /\ run.kind = "script"
    /\ run.stage = "saved"
    /\ ~run.auto_assign
    /\ sheet.header = PartialSheet.header
    /\ run.writes # {}
    /\ \A q \in run.writes : sheet.header[q[2]] \in {"Visited", "Remarks"}
    /\ sheet.rows[run.row - 1] # PartialSheet.rows[run.row - 1]

\* The column of the secret: Password before PIN before Passcode before
\* Secret, "" where the agents sheet has none of them.
SecretColumn ==
    LET columns == DOMAIN deploy.agents[1]
    IN  IF "Password" \in columns THEN "Password"
        ELSE IF "PIN" \in columns THEN "PIN"
        ELSE IF "Passcode" \in columns THEN "Passcode"
        ELSE IF "Secret" \in columns THEN "Secret"
        ELSE ""

\* The rows of the agents sheet whose agent code cell is the entered code,
\* once both are trimmed and upper-cased.
MatchingCells(code) ==
    {i \in DOMAIN deploy.agents :
        UpperCase(Strip(deploy.agents[i].agent_code)) = UpperCase(Strip(code))}

\* C21: login gate of routes_visit_app_v2. Where the agents sheet has a
\* column Password, PIN, Passcode or Secret, try_login succeeds only if the
\* entered code matches the agent code of a row (trimmed, whatever the
\* case), the secret is not empty and, trimmed, equals the trimmed value
\* that row stores in the first of these columns. Where the sheet has none
\* of these columns, try_login succeeds for every entered code that matches
\* the agent code of a row, whatever the secret.
C21_LoginGateV2 ==
    run.kind = "try_login_v2" =>
        IF SecretColumn # ""
        THEN run.login # None =>
                /\ run.secret # <<>>
                /\ \E i \in MatchingCells(run.code) :
                      Strip(run.secret) = Strip(deploy.agents[i][SecretColumn])
        ELSE run.code # <<>> /\ MatchingCells(run.code) # {} => run.login # None

\* What try_login does keep to: the statement of C21 on the rows as
\* get_all_records hands them over, with the first matching row the one
\* whose secret counts.
MatchingAsRead(code) ==
    {i \in DOMAIN AgentsRecords(deploy) :
        UpperCase(Strip(AgentsRecords(deploy)[i].agent_code)) = UpperCase(Strip(code))}

LoginGateV2AsRead ==
    run.kind = "try_login_v2" =>
        IF SecretColumn # ""
        THEN run.login # None <=>
                /\ run.code # <<>>
                /\ MatchingAsRead(run.code) # {}
                /\ run.secret # <<>>
                /\ LET first == CHOOSE i \in MatchingAsRead(run.code) :
                                    \A j \in MatchingAsRead(run.code) : i <= j
                   IN  Strip(run.secret) = Strip(AgentsRecords(deploy)[first][SecretColumn])
        ELSE run.login # None <=> run.code # <<>> /\ MatchingAsRead(run.code) # {}

=============================================================================
